---- MODULE Spec2Model ----
(***************************************************************************)
(* The leveled logger of package twigsnake (type Logger) and its second    *)
(* copy in package nlog (type NLog): one integer threshold, eight          *)
(* *log.Logger sub-loggers held in exported pointer fields, and 24         *)
(* emission methods that compare the threshold and delegate.               *)
(***************************************************************************)
EXTENDS Integers, Sequences, FiniteSets

\* ---------------------------------------------------------------- bounds
\* Method calls made on one logger in a behaviour.
MaxCalls == 2
\* How far outside 0..7 the level arguments of New and SetLogLevel range.
Over == 2

\* ------------------------------------------------------ severity levels
LOG_EMERG  == 0
LOG_ALERT  == 1
LOG_CRIT   == 2
LOG_ERROR  == 3
LOG_WARN   == 4
LOG_NOTICE == 5
LOG_INFO   == 6
LOG_DEBUG  == 7

\* ---------------------------------------------------------------- inputs
Levels  == (0 - Over) .. (7 + Over)
\* io.Writer values a caller can hand over: two in-memory buffers, and the
\* nil interface value.
Writers   == {"w0", "w1"}
NilWriter == "nil"
\* Argument lists v ...interface{} and format strings.
Args    == {<<"x", "y">>}
Formats == {"%v"}

FieldNames == {"EmergLogger", "AlertLogger", "CritLogger", "ErrorLogger",
               "WarningLogger", "NoticeLogger", "InfoLogger", "DebugLogger"}

\* A nil *log.Logger; the log.Logger objects that exist are numbered from 1.
NIL == 0
\* A nil *Logger / *NLog.
NilLogger == [nil |-> TRUE]

\* error values
ErrNil     == "<nil>"
ErrInvalid == "invalid severity level"

\* flag sets of package log
FlagSets     == {{"Ldate", "Lmicroseconds"}}
PrefixInputs == {""}

VARIABLES
    logger,   \* the caller's *Logger: NilLogger or the struct
    heap,     \* the log.Logger objects the struct's fields point to
    dest,     \* what each io.Writer has received, in order
    last,     \* the call made last: method and arguments
    ret,      \* how that call ended: its results, or a panic
    calls,    \* method calls made so far
    nlog,     \* the caller's *NLog
    nheap,    \* the log.Logger objects of the NLog
    ndest,    \* what the NLog's writers have received
    nret,     \* how the last call on the NLog ended
    thr       \* goroutines inside a method of the Logger: where each one is

nvars == <<nlog, nheap, ndest, nret>>
vars  == <<logger, heap, dest, last, ret, calls, nlog, nheap, ndest, nret, thr>>

\* ----------------------------------------------------- results of a call
Returned      == [kind |-> "return", err |-> ErrNil, val |-> 0]
Failed(e)     == [kind |-> "return", err |-> e, val |-> 0]
Value(x)      == [kind |-> "return", err |-> ErrNil, val |-> x]
Panicked      == [kind |-> "panic", err |-> ErrNil, val |-> 0]
NotCalled     == [kind |-> "none", err |-> ErrNil, val |-> 0]

\* A call as the caller made it: the method, and its arguments in the slots
\* they fill (field: the exported field used, p: a *log.Logger assigned).
CallOf(op, field, lvl, w, s, v, flag, p) ==
    [op |-> op, field |-> field, lvl |-> lvl, w |-> w, s |-> s, v |-> v,
     flag |-> flag, p |-> p]
EmitCall(op, format, v)   == CallOf(op, "", 0, "", format, v, {}, NIL)
LevelCall(op, lvl, w)     == CallOf(op, "", lvl, w, "", <<>>, {}, NIL)
FieldCall(op, field, w, s, flag, p) == CallOf(op, field, 0, w, s, <<>>, flag, p)

\* ------------------------------------------------------- package log
\* log.New(out, prefix, flag)
LogNew(out, prefix, flag) == [out |-> out, prefix |-> prefix, flag |-> flag]

\* The header log.Logger puts before a message: the prefix first unless
\* Lmsgprefix is set, the date, the time, and the prefix last if Lmsgprefix.
Header(lg) ==
    (IF "Lmsgprefix" \in lg.flag THEN <<>> ELSE <<lg.prefix>>)
    \o (IF "Ldate" \in lg.flag THEN <<"date">> ELSE <<>>)
    \o (IF "Lmicroseconds" \in lg.flag THEN <<"time.micros">>
        ELSE IF "Ltime" \in lg.flag THEN <<"time">> ELSE <<>>)
    \o (IF "Lmsgprefix" \in lg.flag THEN <<lg.prefix>> ELSE <<>>)

\* One line as the writer receives it: the header, then the message that
\* fmt.Sprint / Sprintf / Sprintln makes of the arguments.
Line(lg, call, format, v) ==
    [hdr |-> Header(lg), call |-> call, format |-> format, v |-> v]

\* A call of Print, Printf or Println through the pointer id: a nil
\* *log.Logger or a nil io.Writer is dereferenced and the call panics;
\* otherwise one line goes to the logger's writer.
Output(hp, dst, id, call, format, v) ==
    IF id = NIL THEN [dest |-> dst, ret |-> Panicked]
    ELSE IF hp[id].out = NilWriter THEN [dest |-> dst, ret |-> Panicked]
    ELSE [dest |-> [dst EXCEPT ![hp[id].out] =
                        Append(@, Line(hp[id], call, format, v))],
          ret  |-> Returned]

LPrint(id, v) ==
    LET r == Output(heap, dest, id, "Print", "", v)
    IN  dest' = r.dest /\ ret' = r.ret

LPrintf(id, format, v) ==
    LET r == Output(heap, dest, id, "Printf", format, v)
    IN  dest' = r.dest /\ ret' = r.ret

LPrintln(id, v) ==
    LET r == Output(heap, dest, id, "Println", "", v)
    IN  dest' = r.dest /\ ret' = r.ret

\* The method returns without calling its sub-logger.
Skip == dest' = dest /\ ret' = Returned

\* ------------------------------------------------------ package twigsnake
\* Variants of checkLogLevel that test only one end of the range.
checkLogLevelNoUpper(lvl) ==
    IF ~(lvl >= 0) THEN ErrInvalid ELSE ErrNil

checkLogLevelNoLower(lvl) ==
    IF ~(lvl <= 7) THEN ErrInvalid ELSE ErrNil

checkLogLevel(lvl) ==
    IF ~(lvl >= 0 /\ lvl <= 7) THEN ErrInvalid ELSE ErrNil

\* A variant of the struct literal in which the eight fields share one
\* log.Logger object.
NewLoggerShared(lvl, w) ==
    [obj  |-> [logLevel      |-> lvl,
               EmergLogger   |-> 1,
               AlertLogger   |-> 1,
               CritLogger    |-> 1,
               ErrorLogger   |-> 1,
               WarningLogger |-> 1,
               NoticeLogger  |-> 1,
               InfoLogger    |-> 1,
               DebugLogger   |-> 1],
     heap |-> << LogNew(w, "[EMERG] ", {"Ldate", "Ltime", "Lmsgprefix"}) >>]

\* The struct literal of New and the eight log.New objects it points to.
NewLogger(lvl, w) ==
    [obj  |-> [logLevel      |-> lvl,
               EmergLogger   |-> 1,
               AlertLogger   |-> 2,
               CritLogger    |-> 3,
               ErrorLogger   |-> 4,
               WarningLogger |-> 5,
               NoticeLogger  |-> 6,
               InfoLogger    |-> 7,
               DebugLogger   |-> 8],
     heap |-> << LogNew(w, "[EMERG] ", {"Ldate", "Ltime", "Lmsgprefix"}),
                 LogNew(w, "[ALERT] ", {"Ldate", "Ltime", "Lmsgprefix"}),
                 LogNew(w, "[CRIT] ", {"Ldate", "Ltime", "Lmsgprefix"}),
                 LogNew(w, "[ERROR] ", {"Ldate", "Ltime", "Lmsgprefix"}),
                 LogNew(w, "[WARN] ", {"Ldate", "Ltime", "Lmsgprefix"}),
                 LogNew(w, "[NOTICE] ", {"Ldate", "Ltime", "Lmsgprefix"}),
                 LogNew(w, "[INFO] ", {"Ldate", "Ltime", "Lmsgprefix"}),
                 LogNew(w, "[DEBUG] ", {"Ldate", "Ltime", "Lmsgprefix"}) >>]

\* A method call on the logger the caller holds: the caller has one, no
\* earlier call has panicked, and the call budget is not used up.
Enter ==
    /\ logger # NilLogger
    /\ ret.kind # "panic"
    /\ calls < MaxCalls

\* The emission methods leave the struct and its sub-loggers alone.
Called(op, format, v) ==
    /\ last' = EmitCall(op, format, v)
    /\ calls' = calls + 1
    /\ UNCHANGED <<logger, heap>>

New(lvl, w) ==
    /\ logger = NilLogger
    /\ IF checkLogLevel(lvl) # ErrNil
          THEN /\ logger' = NilLogger
               /\ heap' = heap
               /\ ret' = Failed(checkLogLevel(lvl))
          ELSE /\ logger' = NewLogger(lvl, w).obj
               /\ heap' = NewLogger(lvl, w).heap
               /\ ret' = Returned
    /\ last' = LevelCall("New", lvl, w)
    /\ UNCHANGED <<dest, calls>>

LogLevel ==
    /\ Enter
    /\ ret' = Value(logger.logLevel)
    /\ last' = LevelCall("LogLevel", 0, "")
    /\ calls' = calls + 1
    /\ UNCHANGED <<logger, heap, dest>>

\* A variant of SetLogLevel that stores the level before it validates it.
SetLogLevelStoredFirst(lvl) ==
    /\ Enter
    /\ logger' = [logger EXCEPT !.logLevel = lvl]
    /\ ret' = Failed(checkLogLevel(lvl))
    /\ last' = LevelCall("SetLogLevel", lvl, "")
    /\ calls' = calls + 1
    /\ UNCHANGED <<heap, dest>>

\* A variant of SetLogLevel that validates the level and does not store it.
SetLogLevelNotStored(lvl) ==
    /\ Enter
    /\ logger' = logger
    /\ ret' = Failed(checkLogLevel(lvl))
    /\ last' = LevelCall("SetLogLevel", lvl, "")
    /\ calls' = calls + 1
    /\ UNCHANGED <<heap, dest>>

SetLogLevel(lvl) ==
    /\ Enter
    /\ IF checkLogLevel(lvl) # ErrNil
          THEN /\ logger' = logger
               /\ ret' = Failed(checkLogLevel(lvl))
          ELSE /\ logger' = [logger EXCEPT !.logLevel = lvl]
               /\ ret' = Returned
    /\ last' = LevelCall("SetLogLevel", lvl, "")
    /\ calls' = calls + 1
    /\ UNCHANGED <<heap, dest>>

Emerg(v) ==
    /\ Enter
    /\ LPrint(logger.EmergLogger, v)
    /\ Called("Emerg", "", v)

Emergf(format, v) ==
    /\ Enter
    /\ LPrintf(logger.EmergLogger, format, v)
    /\ Called("Emergf", format, v)

\* A variant of Emergln that compares the threshold as the other severities'
\* methods do, with a strict comparison.
EmerglnFiltered(v) ==
    /\ Enter
    /\ IF logger.logLevel > LOG_EMERG
          THEN LPrintln(logger.EmergLogger, v)
          ELSE Skip
    /\ Called("Emergln", "", v)

Emergln(v) ==
    /\ Enter
    /\ LPrintln(logger.EmergLogger, v)
    /\ Called("Emergln", "", v)

Alert(v) ==
    /\ Enter
    /\ IF logger.logLevel >= LOG_ALERT
          THEN LPrint(logger.AlertLogger, v)
          ELSE Skip
    /\ Called("Alert", "", v)

\* A variant of Alertf that hands the arguments to Print and drops the format.
AlertfAsPrint(format, v) ==
    /\ Enter
    /\ IF logger.logLevel >= LOG_ALERT
          THEN LPrint(logger.AlertLogger, v)
          ELSE Skip
    /\ Called("Alertf", format, v)

Alertf(format, v) ==
    /\ Enter
    /\ IF logger.logLevel >= LOG_ALERT
          THEN LPrintf(logger.AlertLogger, format, v)
          ELSE Skip
    /\ Called("Alertf", format, v)

Alertln(v) ==
    /\ Enter
    /\ IF logger.logLevel >= LOG_ALERT
          THEN LPrintln(logger.AlertLogger, v)
          ELSE Skip
    /\ Called("Alertln", "", v)

Crit(v) ==
    /\ Enter
    /\ IF logger.logLevel >= LOG_CRIT
          THEN LPrint(logger.CritLogger, v)
          ELSE Skip
    /\ Called("Crit", "", v)

Critf(format, v) ==
    /\ Enter
    /\ IF logger.logLevel >= LOG_CRIT
          THEN LPrintf(logger.CritLogger, format, v)
          ELSE Skip
    /\ Called("Critf", format, v)

Critln(v) ==
    /\ Enter
    /\ IF logger.logLevel >= LOG_CRIT
          THEN LPrintln(logger.CritLogger, v)
          ELSE Skip
    /\ Called("Critln", "", v)

Error(v) ==
    /\ Enter
    /\ IF logger.logLevel >= LOG_ERROR
          THEN LPrint(logger.ErrorLogger, v)
          ELSE Skip
    /\ Called("Error", "", v)

Errorf(format, v) ==
    /\ Enter
    /\ IF logger.logLevel >= LOG_ERROR
          THEN LPrintf(logger.ErrorLogger, format, v)
          ELSE Skip
    /\ Called("Errorf", format, v)

Errorln(v) ==
    /\ Enter
    /\ IF logger.logLevel >= LOG_ERROR
          THEN LPrintln(logger.ErrorLogger, v)
          ELSE Skip
    /\ Called("Errorln", "", v)

\* A variant of Warn with a strict comparison.
WarnStrict(v) ==
    /\ Enter
    /\ IF logger.logLevel > LOG_WARN
          THEN LPrint(logger.WarningLogger, v)
          ELSE Skip
    /\ Called("Warn", "", v)

Warn(v) ==
    /\ Enter
    /\ IF logger.logLevel >= LOG_WARN
          THEN LPrint(logger.WarningLogger, v)
          ELSE Skip
    /\ Called("Warn", "", v)

\* A variant of Warnf that writes through the notice sub-logger.
WarnfThroughNotice(format, v) ==
    /\ Enter
    /\ IF logger.logLevel >= LOG_WARN
          THEN LPrintf(logger.NoticeLogger, format, v)
          ELSE Skip
    /\ Called("Warnf", format, v)

Warnf(format, v) ==
    /\ Enter
    /\ IF logger.logLevel >= LOG_WARN
          THEN LPrintf(logger.WarningLogger, format, v)
          ELSE Skip
    /\ Called("Warnf", format, v)

Warnln(v) ==
    /\ Enter
    /\ IF logger.logLevel >= LOG_WARN
          THEN LPrintln(logger.WarningLogger, v)
          ELSE Skip
    /\ Called("Warnln", "", v)

Notice(v) ==
    /\ Enter
    /\ IF logger.logLevel >= LOG_NOTICE
          THEN LPrint(logger.NoticeLogger, v)
          ELSE Skip
    /\ Called("Notice", "", v)

Noticef(format, v) ==
    /\ Enter
    /\ IF logger.logLevel >= LOG_NOTICE
          THEN LPrintf(logger.NoticeLogger, format, v)
          ELSE Skip
    /\ Called("Noticef", format, v)

Noticeln(v) ==
    /\ Enter
    /\ IF logger.logLevel >= LOG_NOTICE
          THEN LPrintln(logger.NoticeLogger, v)
          ELSE Skip
    /\ Called("Noticeln", "", v)

Info(v) ==
    /\ Enter
    /\ IF logger.logLevel >= LOG_INFO
          THEN LPrint(logger.InfoLogger, v)
          ELSE Skip
    /\ Called("Info", "", v)

Infof(format, v) ==
    /\ Enter
    /\ IF logger.logLevel >= LOG_INFO
          THEN LPrintf(logger.InfoLogger, format, v)
          ELSE Skip
    /\ Called("Infof", format, v)

Infoln(v) ==
    /\ Enter
    /\ IF logger.logLevel >= LOG_INFO
          THEN LPrintln(logger.InfoLogger, v)
          ELSE Skip
    /\ Called("Infoln", "", v)

\* A variant of Debug that calls the sub-logger whatever the threshold.
DebugUnfiltered(v) ==
    /\ Enter
    /\ LPrint(logger.DebugLogger, v)
    /\ Called("Debug", "", v)

Debug(v) ==
    /\ Enter
    /\ IF logger.logLevel >= LOG_DEBUG
          THEN LPrint(logger.DebugLogger, v)
          ELSE Skip
    /\ Called("Debug", "", v)

Debugf(format, v) ==
    /\ Enter
    /\ IF logger.logLevel >= LOG_DEBUG
          THEN LPrintf(logger.DebugLogger, format, v)
          ELSE Skip
    /\ Called("Debugf", format, v)

Debugln(v) ==
    /\ Enter
    /\ IF logger.logLevel >= LOG_DEBUG
          THEN LPrintln(logger.DebugLogger, v)
          ELSE Skip
    /\ Called("Debugln", "", v)

\* ------------------------------------- the exported sub-logger fields
\* logger.<field>.SetOutput(w): through a nil field the call panics.
SetOutput(field, w) ==
    /\ Enter
    /\ IF logger[field] = NIL
          THEN heap' = heap /\ ret' = Panicked
          ELSE heap' = [heap EXCEPT ![logger[field]].out = w] /\ ret' = Returned
    /\ last' = FieldCall("SetOutput", field, w, "", {}, NIL)
    /\ calls' = calls + 1
    /\ UNCHANGED <<logger, dest>>

\* logger.<field>.SetPrefix(prefix)
SetPrefix(field, prefix) ==
    /\ Enter
    /\ IF logger[field] = NIL
          THEN heap' = heap /\ ret' = Panicked
          ELSE heap' = [heap EXCEPT ![logger[field]].prefix = prefix]
               /\ ret' = Returned
    /\ last' = FieldCall("SetPrefix", field, "", prefix, {}, NIL)
    /\ calls' = calls + 1
    /\ UNCHANGED <<logger, dest>>

\* logger.<field>.SetFlags(flag)
SetFlags(field, flag) ==
    /\ Enter
    /\ IF logger[field] = NIL
          THEN heap' = heap /\ ret' = Panicked
          ELSE heap' = [heap EXCEPT ![logger[field]].flag = flag]
               /\ ret' = Returned
    /\ last' = FieldCall("SetFlags", field, "", "", flag, NIL)
    /\ calls' = calls + 1
    /\ UNCHANGED <<logger, dest>>

\* logger.<field> = p: the fields are exported, the caller may store nil or
\* another of the logger's *log.Logger values in one.
AssignSubLogger(field, p) ==
    /\ Enter
    /\ logger' = [logger EXCEPT ![field] = p]
    /\ ret' = Returned
    /\ last' = FieldCall("Assign", field, "", "", {}, p)
    /\ calls' = calls + 1
    /\ UNCHANGED <<heap, dest>>

\* ------------------------------------------------------------ package nlog
NcheckLogLevel(lvl) ==
    IF ~(lvl >= 0 /\ lvl <= 7) THEN ErrInvalid ELSE ErrNil

NNewLogger(lvl, w) ==
    [obj  |-> [logLevel      |-> lvl,
               EmergLogger   |-> 1,
               AlertLogger   |-> 2,
               CritLogger    |-> 3,
               ErrorLogger   |-> 4,
               WarningLogger |-> 5,
               NoticeLogger  |-> 6,
               InfoLogger    |-> 7,
               DebugLogger   |-> 8],
     heap |-> << LogNew(w, "[EMERG] ", {"Ldate", "Ltime", "Lmsgprefix"}),
                 LogNew(w, "[ALERT] ", {"Ldate", "Ltime", "Lmsgprefix"}),
                 LogNew(w, "[CRIT] ", {"Ldate", "Ltime", "Lmsgprefix"}),
                 LogNew(w, "[ERROR] ", {"Ldate", "Ltime", "Lmsgprefix"}),
                 LogNew(w, "[WARN] ", {"Ldate", "Ltime", "Lmsgprefix"}),
                 LogNew(w, "[NOTICE] ", {"Ldate", "Ltime", "Lmsgprefix"}),
                 LogNew(w, "[INFO] ", {"Ldate", "Ltime", "Lmsgprefix"}),
                 LogNew(w, "[DEBUG] ", {"Ldate", "Ltime", "Lmsgprefix"}) >>]

NPrint(id, v) ==
    LET r == Output(nheap, ndest, id, "Print", "", v)
    IN  ndest' = r.dest /\ nret' = r.ret

NPrintf(id, format, v) ==
    LET r == Output(nheap, ndest, id, "Printf", format, v)
    IN  ndest' = r.dest /\ nret' = r.ret

NPrintln(id, v) ==
    LET r == Output(nheap, ndest, id, "Println", "", v)
    IN  ndest' = r.dest /\ nret' = r.ret

NSkip == ndest' = ndest /\ nret' = Returned

NEnter ==
    /\ nlog # NilLogger
    /\ nret.kind # "panic"

\* NLog.Errorln compares n.loglLevel, a field the struct NLog does not
\* declare and no statement assigns: the value compared is any integer.
UndeclaredField == Levels

NNew(lvl, w) ==
    /\ nlog = NilLogger
    /\ IF NcheckLogLevel(lvl) # ErrNil
          THEN /\ nlog' = NilLogger
               /\ nheap' = nheap
               /\ nret' = Failed(NcheckLogLevel(lvl))
          ELSE /\ nlog' = NNewLogger(lvl, w).obj
               /\ nheap' = NNewLogger(lvl, w).heap
               /\ nret' = Returned
    /\ UNCHANGED ndest

NLogLevel ==
    /\ NEnter
    /\ nret' = Value(nlog.logLevel)
    /\ UNCHANGED <<nlog, nheap, ndest>>

NSetLogLevel(lvl) ==
    /\ NEnter
    /\ IF NcheckLogLevel(lvl) # ErrNil
          THEN /\ nlog' = nlog
               /\ nret' = Failed(NcheckLogLevel(lvl))
          ELSE /\ nlog' = [nlog EXCEPT !.logLevel = lvl]
               /\ nret' = Returned
    /\ UNCHANGED <<nheap, ndest>>

NEmerg(v) ==
    /\ NEnter
    /\ NPrint(nlog.EmergLogger, v)
    /\ UNCHANGED <<nlog, nheap>>

NEmergf(format, v) ==
    /\ NEnter
    /\ NPrintf(nlog.EmergLogger, format, v)
    /\ UNCHANGED <<nlog, nheap>>

NEmergln(v) ==
    /\ NEnter
    /\ NPrintln(nlog.EmergLogger, v)
    /\ UNCHANGED <<nlog, nheap>>

NAlert(v) ==
    /\ NEnter
    /\ IF nlog.logLevel >= LOG_ALERT
          THEN NPrint(nlog.AlertLogger, v)
          ELSE NSkip
    /\ UNCHANGED <<nlog, nheap>>

NAlertf(format, v) ==
    /\ NEnter
    /\ IF nlog.logLevel >= LOG_ALERT
          THEN NPrintf(nlog.AlertLogger, format, v)
          ELSE NSkip
    /\ UNCHANGED <<nlog, nheap>>

NAlertln(v) ==
    /\ NEnter
    /\ IF nlog.logLevel >= LOG_ALERT
          THEN NPrintln(nlog.AlertLogger, v)
          ELSE NSkip
    /\ UNCHANGED <<nlog, nheap>>

NCrit(v) ==
    /\ NEnter
    /\ IF nlog.logLevel >= LOG_CRIT
          THEN NPrint(nlog.CritLogger, v)
          ELSE NSkip
    /\ UNCHANGED <<nlog, nheap>>

NCritf(format, v) ==
    /\ NEnter
    /\ IF nlog.logLevel >= LOG_CRIT
          THEN NPrintf(nlog.CritLogger, format, v)
          ELSE NSkip
    /\ UNCHANGED <<nlog, nheap>>

NCritln(v) ==
    /\ NEnter
    /\ IF nlog.logLevel >= LOG_CRIT
          THEN NPrintln(nlog.CritLogger, v)
          ELSE NSkip
    /\ UNCHANGED <<nlog, nheap>>

NError(v) ==
    /\ NEnter
    /\ IF nlog.logLevel >= LOG_ERROR
          THEN NPrint(nlog.ErrorLogger, v)
          ELSE NSkip
    /\ UNCHANGED <<nlog, nheap>>

NErrorf(format, v) ==
    /\ NEnter
    /\ IF nlog.logLevel >= LOG_ERROR
          THEN NPrintf(nlog.ErrorLogger, format, v)
          ELSE NSkip
    /\ UNCHANGED <<nlog, nheap>>

NErrorln(v) ==
    /\ NEnter
    /\ \E loglLevel \in UndeclaredField :
          IF loglLevel >= LOG_ERROR
             THEN NPrintln(nlog.ErrorLogger, v)
             ELSE NSkip
    /\ UNCHANGED <<nlog, nheap>>

NWarn(v) ==
    /\ NEnter
    /\ IF nlog.logLevel >= LOG_WARN
          THEN NPrint(nlog.WarningLogger, v)
          ELSE NSkip
    /\ UNCHANGED <<nlog, nheap>>

NWarnf(format, v) ==
    /\ NEnter
    /\ IF nlog.logLevel >= LOG_WARN
          THEN NPrintf(nlog.WarningLogger, format, v)
          ELSE NSkip
    /\ UNCHANGED <<nlog, nheap>>

NWarnln(v) ==
    /\ NEnter
    /\ IF nlog.logLevel >= LOG_WARN
          THEN NPrintln(nlog.WarningLogger, v)
          ELSE NSkip
    /\ UNCHANGED <<nlog, nheap>>

NNotice(v) ==
    /\ NEnter
    /\ IF nlog.logLevel >= LOG_NOTICE
          THEN NPrint(nlog.NoticeLogger, v)
          ELSE NSkip
    /\ UNCHANGED <<nlog, nheap>>

NNoticef(format, v) ==
    /\ NEnter
    /\ IF nlog.logLevel >= LOG_NOTICE
          THEN NPrintf(nlog.NoticeLogger, format, v)
          ELSE NSkip
    /\ UNCHANGED <<nlog, nheap>>

NNoticeln(v) ==
    /\ NEnter
    /\ IF nlog.logLevel >= LOG_NOTICE
          THEN NPrintln(nlog.NoticeLogger, v)
          ELSE NSkip
    /\ UNCHANGED <<nlog, nheap>>

NInfo(v) ==
    /\ NEnter
    /\ IF nlog.logLevel >= LOG_INFO
          THEN NPrint(nlog.InfoLogger, v)
          ELSE NSkip
    /\ UNCHANGED <<nlog, nheap>>

NInfof(format, v) ==
    /\ NEnter
    /\ IF nlog.logLevel >= LOG_INFO
          THEN NPrintf(nlog.InfoLogger, format, v)
          ELSE NSkip
    /\ UNCHANGED <<nlog, nheap>>

NInfoln(v) ==
    /\ NEnter
    /\ IF nlog.logLevel >= LOG_INFO
          THEN NPrintln(nlog.InfoLogger, v)
          ELSE NSkip
    /\ UNCHANGED <<nlog, nheap>>

NDebug(v) ==
    /\ NEnter
    /\ IF nlog.logLevel >= LOG_DEBUG
          THEN NPrint(nlog.DebugLogger, v)
          ELSE NSkip
    /\ UNCHANGED <<nlog, nheap>>

NDebugf(format, v) ==
    /\ NEnter
    /\ IF nlog.logLevel >= LOG_DEBUG
          THEN NPrintf(nlog.DebugLogger, format, v)
          ELSE NSkip
    /\ UNCHANGED <<nlog, nheap>>

NDebugln(v) ==
    /\ NEnter
    /\ IF nlog.logLevel >= LOG_DEBUG
          THEN NPrintln(nlog.DebugLogger, v)
          ELSE NSkip
    /\ UNCHANGED <<nlog, nheap>>

\* ------------------------------------------------------- specifications
\* Goroutines that call methods of one Logger.
Threads == {"g1", "g2"}

\* No goroutine is inside a method. locking: whether the caller wraps every
\* call in mu.Lock() / mu.Unlock() of one mutex of its own; mu: that mutex's
\* holder; pc, lvl, v: each goroutine's position and arguments; saw, admit:
\* the threshold an emission read and the branch it took; start: the
\* threshold set by the last call completed when the emission began;
\* written, completed: the levels SetLogLevel calls have stored, and those
\* of the calls that have returned, in order.
NoThreads(locking) ==
    [locking   |-> locking,
     mu        |-> "",
     pc        |-> [t \in Threads |-> "idle"],
     lvl       |-> [t \in Threads |-> 0],
     err       |-> [t \in Threads |-> ErrNil],
     v         |-> [t \in Threads |-> <<>>],
     saw       |-> [t \in Threads |-> 0],
     admit     |-> [t \in Threads |-> FALSE],
     start     |-> [t \in Threads |-> 0],
     written   |-> <<>>,
     completed |-> <<>>]

Init ==
    /\ logger = NilLogger
    /\ heap = <<>>
    /\ dest = [w \in Writers |-> <<>>]
    /\ last = LevelCall("none", 0, "")
    /\ ret = NotCalled
    /\ calls = 0
    /\ nlog = NilLogger
    /\ nheap = <<>>
    /\ ndest = [w \in Writers |-> <<>>]
    /\ nret = NotCalled
    /\ thr = NoThreads(FALSE)

NIdle == UNCHANGED nvars

\* No goroutine other than the caller's is at work.
TIdle == UNCHANGED thr

\* The methods of Logger, called one at a time on a logger made by New
\* over a writer that is not nil.
Next ==
    \/ \E lvl \in Levels, w \in Writers : New(lvl, w) /\ NIdle /\ TIdle
    \/ LogLevel /\ NIdle /\ TIdle
    \/ \E lvl \in Levels : SetLogLevel(lvl) /\ NIdle /\ TIdle
    \/ \E v \in Args : Emerg(v) /\ NIdle /\ TIdle
    \/ \E format \in Formats, v \in Args : Emergf(format, v) /\ NIdle /\ TIdle
    \/ \E v \in Args : Emergln(v) /\ NIdle /\ TIdle
    \/ \E v \in Args : Alert(v) /\ NIdle /\ TIdle
    \/ \E format \in Formats, v \in Args : Alertf(format, v) /\ NIdle /\ TIdle
    \/ \E v \in Args : Alertln(v) /\ NIdle /\ TIdle
    \/ \E v \in Args : Crit(v) /\ NIdle /\ TIdle
    \/ \E format \in Formats, v \in Args : Critf(format, v) /\ NIdle /\ TIdle
    \/ \E v \in Args : Critln(v) /\ NIdle /\ TIdle
    \/ \E v \in Args : Error(v) /\ NIdle /\ TIdle
    \/ \E format \in Formats, v \in Args : Errorf(format, v) /\ NIdle /\ TIdle
    \/ \E v \in Args : Errorln(v) /\ NIdle /\ TIdle
    \/ \E v \in Args : Warn(v) /\ NIdle /\ TIdle
    \/ \E format \in Formats, v \in Args : Warnf(format, v) /\ NIdle /\ TIdle
    \/ \E v \in Args : Warnln(v) /\ NIdle /\ TIdle
    \/ \E v \in Args : Notice(v) /\ NIdle /\ TIdle
    \/ \E format \in Formats, v \in Args : Noticef(format, v) /\ NIdle /\ TIdle
    \/ \E v \in Args : Noticeln(v) /\ NIdle /\ TIdle
    \/ \E v \in Args : Info(v) /\ NIdle /\ TIdle
    \/ \E format \in Formats, v \in Args : Infof(format, v) /\ NIdle /\ TIdle
    \/ \E v \in Args : Infoln(v) /\ NIdle /\ TIdle
    \/ \E v \in Args : Debug(v) /\ NIdle /\ TIdle
    \/ \E format \in Formats, v \in Args : Debugf(format, v) /\ NIdle /\ TIdle
    \/ \E v \in Args : Debugln(v) /\ NIdle /\ TIdle

Spec == Init /\ [][Next]_vars

\* The same, and the caller reconfigures sub-loggers through the exported
\* fields (SetOutput, SetPrefix, SetFlags).
NextCfg ==
    \/ Next
    \/ \E field \in FieldNames, w \in Writers : SetOutput(field, w) /\ NIdle /\ TIdle
    \/ \E field \in FieldNames, prefix \in PrefixInputs :
           SetPrefix(field, prefix) /\ NIdle /\ TIdle
    \/ \E field \in FieldNames, flag \in FlagSets : SetFlags(field, flag) /\ NIdle /\ TIdle

SpecCfg == Init /\ [][NextCfg]_vars

\* The methods of Logger, and the caller hands over nil writers and assigns
\* the exported fields.
NextAny ==
    \/ Next
    \/ \E lvl \in Levels : New(lvl, NilWriter) /\ NIdle /\ TIdle
    \/ \E field \in FieldNames : SetOutput(field, NilWriter) /\ NIdle /\ TIdle
    \/ \E field \in FieldNames, p \in {NIL, 1} :
           AssignSubLogger(field, p) /\ NIdle /\ TIdle

SpecAny == Init /\ [][NextAny]_vars

\* A Logger and an NLog given the same calls.
NextPair ==
    \/ \E lvl \in Levels, w \in Writers : New(lvl, w) /\ NNew(lvl, w) /\ TIdle
    \/ LogLevel /\ NLogLevel /\ TIdle
    \/ \E lvl \in Levels : SetLogLevel(lvl) /\ NSetLogLevel(lvl) /\ TIdle
    \/ \E v \in Args : Emerg(v) /\ NEmerg(v) /\ TIdle
    \/ \E format \in Formats, v \in Args : Emergf(format, v) /\ NEmergf(format, v) /\ TIdle
    \/ \E v \in Args : Emergln(v) /\ NEmergln(v) /\ TIdle
    \/ \E v \in Args : Alert(v) /\ NAlert(v) /\ TIdle
    \/ \E format \in Formats, v \in Args : Alertf(format, v) /\ NAlertf(format, v) /\ TIdle
    \/ \E v \in Args : Alertln(v) /\ NAlertln(v) /\ TIdle
    \/ \E v \in Args : Crit(v) /\ NCrit(v) /\ TIdle
    \/ \E format \in Formats, v \in Args : Critf(format, v) /\ NCritf(format, v) /\ TIdle
    \/ \E v \in Args : Critln(v) /\ NCritln(v) /\ TIdle
    \/ \E v \in Args : Error(v) /\ NError(v) /\ TIdle
    \/ \E format \in Formats, v \in Args : Errorf(format, v) /\ NErrorf(format, v) /\ TIdle
    \/ \E v \in Args : Errorln(v) /\ NErrorln(v) /\ TIdle
    \/ \E v \in Args : Warn(v) /\ NWarn(v) /\ TIdle
    \/ \E format \in Formats, v \in Args : Warnf(format, v) /\ NWarnf(format, v) /\ TIdle
    \/ \E v \in Args : Warnln(v) /\ NWarnln(v) /\ TIdle
    \/ \E v \in Args : Notice(v) /\ NNotice(v) /\ TIdle
    \/ \E format \in Formats, v \in Args : Noticef(format, v) /\ NNoticef(format, v) /\ TIdle
    \/ \E v \in Args : Noticeln(v) /\ NNoticeln(v) /\ TIdle
    \/ \E v \in Args : Info(v) /\ NInfo(v) /\ TIdle
    \/ \E format \in Formats, v \in Args : Infof(format, v) /\ NInfof(format, v) /\ TIdle
    \/ \E v \in Args : Infoln(v) /\ NInfoln(v) /\ TIdle
    \/ \E v \in Args : Debug(v) /\ NDebug(v) /\ TIdle
    \/ \E format \in Formats, v \in Args : Debugf(format, v) /\ NDebugf(format, v) /\ TIdle
    \/ \E v \in Args : Debugln(v) /\ NDebugln(v) /\ TIdle

SpecPair == Init /\ [][NextPair]_vars

\* ------------------------------------------------ concurrent callers
\* The methods of Logger hold no lock. Each is taken apart here into the
\* accesses it makes to l.logLevel, so that goroutines interleave between
\* them. A caller that serializes (thr.locking) takes its mutex before
\* entering a method and gives it back on return.

Committed ==
    IF thr.completed = <<>> THEN last.lvl
    ELSE thr.completed[Len(thr.completed)]

\* A goroutine may enter a method: it is in none, the call budget is not
\* used up, and under the caller's discipline the mutex is free.
MayEnter(t) ==
    /\ logger # NilLogger
    /\ thr.pc[t] = "idle"
    /\ calls < MaxCalls
    /\ thr.locking => thr.mu = ""

Acquired(t) == IF thr.locking THEN t ELSE thr.mu
Released(t) == IF thr.locking THEN "" ELSE thr.mu

\* go logger.SetLogLevel(lvl)
BeginSetLogLevel(t, lvl) ==
    /\ MayEnter(t)
    /\ thr' = [thr EXCEPT !.pc[t] = "check", !.lvl[t] = lvl, !.mu = Acquired(t)]
    /\ calls' = calls + 1
    /\ UNCHANGED <<logger, heap, dest, last, ret, nvars>>

\* if err := checkLogLevel(lvl); err != nil { return err }
SetCheck(t) ==
    /\ thr.pc[t] = "check"
    /\ thr' = [thr EXCEPT !.err[t] = checkLogLevel(thr.lvl[t]),
                          !.pc[t]  = IF checkLogLevel(thr.lvl[t]) # ErrNil
                                        THEN "setret" ELSE "write"]
    /\ UNCHANGED <<logger, heap, dest, last, ret, calls, nvars>>

\* A variant of SetWrite that leaves l.logLevel as it was.
SetWriteSkipped(t) ==
    /\ thr.pc[t] = "write"
    /\ logger' = logger
    /\ thr' = [thr EXCEPT !.pc[t] = "setret",
                          !.written = Append(@, thr.lvl[t])]
    /\ UNCHANGED <<heap, dest, last, ret, calls, nvars>>

\* l.logLevel = lvl
SetWrite(t) ==
    /\ thr.pc[t] = "write"
    /\ logger' = [logger EXCEPT !.logLevel = thr.lvl[t]]
    /\ thr' = [thr EXCEPT !.pc[t] = "setret",
                          !.written = Append(@, thr.lvl[t])]
    /\ UNCHANGED <<heap, dest, last, ret, calls, nvars>>

\* return err / return nil
SetReturn(t) ==
    /\ thr.pc[t] = "setret"
    /\ thr' = [thr EXCEPT !.pc[t] = "idle",
                          !.mu = Released(t),
                          !.completed = IF thr.err[t] = ErrNil
                                           THEN Append(@, thr.lvl[t]) ELSE @]
    /\ UNCHANGED <<logger, heap, dest, last, ret, calls, nvars>>

\* go logger.Debug(v...)
BeginDebug(t, v) ==
    /\ MayEnter(t)
    /\ thr' = [thr EXCEPT !.pc[t] = "read", !.v[t] = v, !.mu = Acquired(t),
                          !.start[t] = Committed]
    /\ calls' = calls + 1
    /\ UNCHANGED <<logger, heap, dest, last, ret, nvars>>

\* if l.logLevel >= LOG_DEBUG
DebugRead(t) ==
    /\ thr.pc[t] = "read"
    /\ thr' = [thr EXCEPT !.saw[t]   = logger.logLevel,
                          !.admit[t] = (logger.logLevel >= LOG_DEBUG),
                          !.pc[t]    = IF logger.logLevel >= LOG_DEBUG
                                          THEN "call" ELSE "emitret"]
    /\ UNCHANGED <<logger, heap, dest, last, ret, calls, nvars>>

\* l.DebugLogger.Print(v...)
DebugCall(t) ==
    /\ thr.pc[t] = "call"
    /\ dest' = Output(heap, dest, logger.DebugLogger, "Print", "", thr.v[t]).dest
    /\ thr' = [thr EXCEPT !.pc[t] = "emitret"]
    /\ UNCHANGED <<logger, heap, last, ret, calls, nvars>>

\* Debug returns.
DebugReturn(t) ==
    /\ thr.pc[t] = "emitret"
    /\ thr' = [thr EXCEPT !.pc[t] = "idle", !.mu = Released(t)]
    /\ UNCHANGED <<logger, heap, dest, last, ret, calls, nvars>>

InitRace ==
    /\ logger = NilLogger
    /\ heap = <<>>
    /\ dest = [w \in Writers |-> <<>>]
    /\ last = LevelCall("none", 0, "")
    /\ ret = NotCalled
    /\ calls = 0
    /\ nlog = NilLogger
    /\ nheap = <<>>
    /\ ndest = [w \in Writers |-> <<>>]
    /\ nret = NotCalled
    /\ \E locking \in BOOLEAN : thr = NoThreads(locking)

\* Two goroutines call SetLogLevel and Debug on one Logger, with or without
\* the caller's mutex.
NextRace ==
    \/ \E lvl \in Levels, w \in Writers : New(lvl, w) /\ NIdle /\ TIdle
    \/ \E t \in Threads, lvl \in Levels : BeginSetLogLevel(t, lvl)
    \/ \E t \in Threads : SetCheck(t)
    \/ \E t \in Threads : SetWrite(t)
    \/ \E t \in Threads : SetReturn(t)
    \/ \E t \in Threads, v \in Args : BeginDebug(t, v)
    \/ \E t \in Threads : DebugRead(t)
    \/ \E t \in Threads : DebugCall(t)
    \/ \E t \in Threads : DebugReturn(t)

SpecRace == InitRace /\ [][NextRace]_vars

\* ---------------------------------------------------------------- claims
\* The 24 emission entry points: the severity each one logs at and the
\* print primitive it stands for.
Entry ==
    [Emerg   |-> [sev |-> 0, call |-> "Print"],
     Emergf  |-> [sev |-> 0, call |-> "Printf"],
     Emergln |-> [sev |-> 0, call |-> "Println"],
     Alert   |-> [sev |-> 1, call |-> "Print"],
     Alertf  |-> [sev |-> 1, call |-> "Printf"],
     Alertln |-> [sev |-> 1, call |-> "Println"],
     Crit    |-> [sev |-> 2, call |-> "Print"],
     Critf   |-> [sev |-> 2, call |-> "Printf"],
     Critln  |-> [sev |-> 2, call |-> "Println"],
     Error   |-> [sev |-> 3, call |-> "Print"],
     Errorf  |-> [sev |-> 3, call |-> "Printf"],
     Errorln |-> [sev |-> 3, call |-> "Println"],
     Warn    |-> [sev |-> 4, call |-> "Print"],
     Warnf   |-> [sev |-> 4, call |-> "Printf"],
     Warnln  |-> [sev |-> 4, call |-> "Println"],
     Notice   |-> [sev |-> 5, call |-> "Print"],
     Noticef  |-> [sev |-> 5, call |-> "Printf"],
     Noticeln |-> [sev |-> 5, call |-> "Println"],
     Info    |-> [sev |-> 6, call |-> "Print"],
     Infof   |-> [sev |-> 6, call |-> "Printf"],
     Infoln  |-> [sev |-> 6, call |-> "Println"],
     Debug   |-> [sev |-> 7, call |-> "Print"],
     Debugf  |-> [sev |-> 7, call |-> "Printf"],
     Debugln |-> [sev |-> 7, call |-> "Println"]]

IsEmit(c) == c.op \in DOMAIN Entry
SevOf(c)  == Entry[c.op].sev

\* The exported field and the prefix of each severity, in rank order.
SubLoggerField == <<"EmergLogger", "AlertLogger", "CritLogger", "ErrorLogger",
                    "WarningLogger", "NoticeLogger", "InfoLogger", "DebugLogger">>
PrefixOfSev == <<"[EMERG] ", "[ALERT] ", "[CRIT] ", "[ERROR] ",
                 "[WARN] ", "[NOTICE] ", "[INFO] ", "[DEBUG] ">>
FieldOfSev(s) == SubLoggerField[s + 1]

\* The sub-logger object of severity s before the step.
SubLogger(s) == heap[logger[FieldOfSev(s)]]

\* In this step writer w gained exactly one line, at its end.
GainedOne(w) ==
    /\ Len(dest'[w]) = Len(dest[w]) + 1
    /\ SubSeq(dest'[w], 1, Len(dest[w])) = dest[w]
NewLine(w) == dest'[w][Len(dest'[w])]

\* In this step the sub-logger of severity s was written through: its
\* writer gained one line, which carries its header.
WroteThrough(s) ==
    /\ GainedOne(SubLogger(s).out)
    /\ NewLine(SubLogger(s).out).hdr = Header(SubLogger(s))

Rejected(c) == c.op = "SetLogLevel" /\ c.lvl \notin 0..7
Accepted(c) == c.op = "SetLogLevel" /\ c.lvl \in 0..7

\* C1 -- filtering rule: a call of any of the 24 emission methods, of
\* severity S, on a logger whose threshold is T writes a message to S's
\* sub-logger if and only if T >= S, whatever SetLogLevel and emission calls
\* came before.
FilteringRuleStep ==
    IsEmit(last') =>
        /\ (logger.logLevel >= SevOf(last')) <=> WroteThrough(SevOf(last'))
        /\ ~(logger.logLevel >= SevOf(last')) => dest' = dest
FilteringRule == [][FilteringRuleStep]_vars

\* A Noticeln at threshold NOTICE, the boundary T = S, has been written.
FilteringRuleWitness ==
    /\ last.op = "Noticeln"
    /\ logger.logLevel = 5
    /\ \E w \in Writers :
          /\ dest[w] # <<>>
          /\ dest[w][Len(dest[w])].hdr = <<"date", "time", "[NOTICE] ">>

\* C2 -- SetLogLevel with a value outside 0..7 returns the invalid-severity
\* error and changes nothing: the threshold, the sub-loggers and the output
\* are as before, LogLevel called next returns the threshold held before,
\* and an emission called next is filtered against it.
RejectedSetLogLevelStep ==
    /\ Rejected(last') =>
          /\ ret' = Failed(ErrInvalid)
          /\ logger' = logger
          /\ heap' = heap
          /\ dest' = dest
    /\ (Rejected(last) /\ last'.op = "LogLevel") =>
          ret' = Value(logger.logLevel)
    /\ (Rejected(last) /\ IsEmit(last')) =>
          ((logger.logLevel >= SevOf(last')) <=> (dest' # dest))
RejectedSetLogLevel == [][RejectedSetLogLevelStep]_vars

\* SetLogLevel(9) has been rejected on a logger whose threshold is INFO.
RejectedSetLogLevelWitness ==
    /\ last.op = "SetLogLevel"
    /\ last.lvl = 9
    /\ ret.err = ErrInvalid
    /\ logger.logLevel = 6

\* C3 -- New with a threshold outside 0..7 returns the invalid-severity
\* error and a nil logger and writes nothing; with a threshold in 0..7 it
\* returns a logger and no error, and LogLevel called on it returns that
\* threshold.
NewContractStep ==
    /\ (last'.op = "New" /\ last'.lvl \notin 0..7) =>
          /\ ret' = Failed(ErrInvalid)
          /\ logger' = NilLogger
          /\ dest' = dest
          /\ \A w \in Writers : dest'[w] = <<>>
    /\ (last'.op = "New" /\ last'.lvl \in 0..7) =>
          /\ ret' = Returned
          /\ logger' # NilLogger
          /\ logger'.logLevel = last'.lvl
    /\ (last.op = "New" /\ last'.op = "LogLevel") =>
          ret' = Value(last.lvl)
NewContract == [][NewContractStep]_vars

\* New(8, w) has returned the error and no logger.
NewContractWitness ==
    /\ last.op = "New"
    /\ last.lvl = 8
    /\ ret.err = ErrInvalid
    /\ logger = NilLogger

\* C4 -- emergency messages appear on any logging level: Emerg, Emergf and
\* Emergln, of Logger and of NLog alike, each write their message through
\* the emergency sub-logger at every threshold, also after any SetLogLevel.
EmergAlwaysStep ==
    last'.op \in {"Emerg", "Emergf", "Emergln"} =>
        /\ WroteThrough(0)
        /\ NewLine(SubLogger(0).out).call = Entry[last'.op].call
        /\ LET nw == nheap[nlog.EmergLogger].out
           IN  /\ Len(ndest'[nw]) = Len(ndest[nw]) + 1
               /\ ndest'[nw][Len(ndest'[nw])].hdr = Header(nheap[nlog.EmergLogger])
               /\ ndest'[nw][Len(ndest'[nw])].call = Entry[last'.op].call
EmergAlways == [][EmergAlwaysStep]_vars

\* Emergln has been written, by the Logger and by the NLog, as the second
\* call on loggers whose threshold is EMERG, the lowest.
EmergAlwaysWitness ==
    /\ last.op = "Emergln"
    /\ logger.logLevel = 0
    /\ nlog.logLevel = 0
    /\ calls = 2
    /\ \E w \in Writers :
          /\ dest[w] # <<>>
          /\ dest[w][Len(dest[w])].hdr = <<"date", "time", "[EMERG] ">>
          /\ ndest[w] # <<>>
          /\ ndest[w][Len(ndest[w])].hdr = <<"date", "time", "[EMERG] ">>

\* C5 -- isolation: SetOutput, SetPrefix or SetFlags on the sub-logger of
\* one severity leaves the writer, prefix and flags of every other
\* severity's sub-logger, the threshold and all output as they were; and an
\* emission that writes does so to the writer and with the header of its
\* own severity's sub-logger, no other writer changing.
IsolationStep ==
    /\ last'.op \in {"SetOutput", "SetPrefix", "SetFlags"} =>
          /\ \A f \in FieldNames \ {last'.field} :
                heap'[logger'[f]] = heap[logger[f]]
          /\ logger' = logger
          /\ dest' = dest
    /\ (IsEmit(last') /\ dest' # dest) =>
          /\ WroteThrough(SevOf(last'))
          /\ \A w \in Writers \ {SubLogger(SevOf(last')).out} :
                dest'[w] = dest[w]
Isolation == [][IsolationStep]_vars

\* DebugLogger has been redirected to w1 and Infoln has then written an
\* [INFO] line to w0, the writer given to New.
IsolationWitness ==
    /\ last.op = "Infoln"
    /\ heap[logger.DebugLogger].out = "w1"
    /\ heap[logger.InfoLogger].out = "w0"
    /\ dest["w1"] = <<>>
    /\ Len(dest["w0"]) = 1
    /\ dest["w0"][1].hdr = <<"date", "time", "[INFO] ">>

\* C6 -- SetLogLevel(T) with T in 0..7 returns no error and makes T the
\* threshold whatever it was; LogLevel called next returns T, an emission
\* called next is filtered against T, and a second SetLogLevel(T) leaves
\* the state of the first.
AcceptedSetLogLevelStep ==
    /\ Accepted(last') =>
          /\ ret' = Returned
          /\ logger' = [logger EXCEPT !.logLevel = last'.lvl]
          /\ heap' = heap
          /\ dest' = dest
    /\ (Accepted(last) /\ last'.op = "LogLevel") => ret' = Value(last.lvl)
    /\ (Accepted(last) /\ IsEmit(last')) =>
          ((last.lvl >= SevOf(last')) <=> WroteThrough(SevOf(last')))
    /\ (Accepted(last) /\ last' = last) =>
          /\ logger' = logger
          /\ heap' = heap
          /\ dest' = dest
          /\ ret' = ret
AcceptedSetLogLevel == [][AcceptedSetLogLevelStep]_vars

\* SetLogLevel(DEBUG) has returned as the second call and the threshold is
\* DEBUG.
AcceptedSetLogLevelWitness ==
    /\ last.op = "SetLogLevel"
    /\ last.lvl = 7
    /\ ret = Returned
    /\ logger.logLevel = 7
    /\ calls = 2

\* C7 -- Logger and NLog behave identically: given the same calls, both
\* return the same results and thresholds and their writers receive the
\* same lines.
SameBehaviour ==
    /\ nret = ret
    /\ ndest = dest
    /\ (nlog = NilLogger) <=> (logger = NilLogger)
    /\ logger # NilLogger => nlog.logLevel = logger.logLevel

\* C8 -- New builds eight distinct sub-loggers on the writer it is given,
\* that of severity S with the prefix of S and the flags
\* date|time|msgprefix; with these defaults every line an emission method of
\* S writes has the header <date> <time> <prefix of S>.
DefaultsStep ==
    /\ (last'.op = "New" /\ ret'.err = ErrNil) =>
          /\ \A s \in 0..7 :
                heap'[logger'[FieldOfSev(s)]] =
                    [out    |-> last'.w,
                     prefix |-> PrefixOfSev[s + 1],
                     flag   |-> {"Ldate", "Ltime", "Lmsgprefix"}]
          /\ \A s, t \in 0..7 :
                s # t => logger'[FieldOfSev(s)] # logger'[FieldOfSev(t)]
    /\ (IsEmit(last') /\ dest' # dest) =>
          \E w \in Writers :
              /\ GainedOne(w)
              /\ NewLine(w).hdr = <<"date", "time", PrefixOfSev[SevOf(last') + 1]>>
Defaults == [][DefaultsStep]_vars

\* Warnln has written a line with the header <date> <time> [WARN] .
DefaultsWitness ==
    /\ last.op = "Warnln"
    /\ \E w \in Writers :
          /\ dest[w] # <<>>
          /\ dest[w][Len(dest[w])].hdr = <<"date", "time", "[WARN] ">>

\* C9 as stated -- no call panics, in any state the caller can bring
\* about, assigned fields included.
NoPanic == ret.kind # "panic"

\* C9 as amended -- New, LogLevel and SetLogLevel always return; an
\* emission method panics exactly when the threshold admits its severity
\* and its sub-logger field is nil or that sub-logger's writer is nil, and
\* returns otherwise.
PanicOnlyThroughNilStep ==
    /\ last'.op \in {"New", "LogLevel", "SetLogLevel"} => ret'.kind = "return"
    /\ IsEmit(last') =>
          ((ret'.kind = "panic") <=>
              /\ logger.logLevel >= SevOf(last')
              /\ \/ logger[FieldOfSev(SevOf(last'))] = NIL
                 \/ SubLogger(SevOf(last')).out = NilWriter)
    /\ IsEmit(last') => ret'.kind \in {"panic", "return"}
PanicOnlyThroughNil == [][PanicOnlyThroughNilStep]_vars

\* Debug has panicked at threshold DEBUG through a DebugLogger field that
\* holds nil.
PanicOnlyThroughNilWitness ==
    /\ last.op = "Debug"
    /\ ret.kind = "panic"
    /\ logger.logLevel = 7
    /\ logger.DebugLogger = NIL

\* C10 -- an emission call is a no-op or exactly one write: rejected by the
\* filter it changes no writer; admitted it appends one line, made of the
\* arguments as passed, to the end of the writer of its severity's
\* sub-logger and changes no other writer; either way the threshold and the
\* sub-loggers are unchanged.
OneWriteStep ==
    IsEmit(last') =>
        /\ logger' = logger
        /\ heap' = heap
        /\ IF logger.logLevel >= SevOf(last')
              THEN dest' = [dest EXCEPT ![SubLogger(SevOf(last')).out] =
                               Append(@, [hdr    |-> Header(SubLogger(SevOf(last'))),
                                          call   |-> Entry[last'.op].call,
                                          format |-> last'.s,
                                          v      |-> last'.v])]
              ELSE dest' = dest
OneWrite == [][OneWriteStep]_vars

\* Infoln and then Alertf have written to the same writer, which holds
\* their two lines in call order.
OneWriteWitness ==
    /\ last.op = "Alertf"
    /\ \E w \in Writers :
          /\ Len(dest[w]) = 2
          /\ dest[w][1].call = "Println"
          /\ dest[w][1].hdr = <<"date", "time", "[INFO] ">>
          /\ dest[w][2].call = "Printf"
          /\ dest[w][2].format = "%v"
          /\ dest[w][2].v = <<"x", "y">>
          /\ dest[w][2].hdr = <<"date", "time", "[ALERT] ">>

\* C11 -- threshold invariant: after a successful New the threshold is
\* always one of 0..7; New sets it to its argument; it changes only in a
\* SetLogLevel step that returns no error, and then to that call's argument;
\* every LogLevel call returns it. Hence LogLevel returns the argument of
\* the latest successful SetLogLevel, or New's argument if there was none.
ThresholdInvariantStep ==
    /\ logger' # NilLogger => logger'.logLevel \in 0..7
    /\ (logger = NilLogger /\ logger' # NilLogger) =>
          /\ last'.op = "New"
          /\ logger'.logLevel = last'.lvl
    /\ (logger # NilLogger /\ logger'.logLevel # logger.logLevel) =>
          /\ last'.op = "SetLogLevel"
          /\ ret' = Returned
          /\ logger'.logLevel = last'.lvl
    /\ (logger # NilLogger /\ last'.op = "SetLogLevel" /\ ret'.err # ErrNil) =>
          logger'.logLevel = logger.logLevel
    /\ last'.op = "LogLevel" =>
          /\ ret' = Value(logger.logLevel)
          /\ logger'.logLevel = logger.logLevel
ThresholdInvariant == [][ThresholdInvariantStep]_vars

\* LogLevel, called second on a logger, has returned ERROR, the threshold
\* the logger holds.
ThresholdInvariantWitness ==
    /\ last.op = "LogLevel"
    /\ calls = 2
    /\ ret = Value(3)
    /\ logger.logLevel = 3

\* Two goroutines are each about to access l.logLevel, one to write it and
\* one to read it, and nothing orders the two accesses.
Race ==
    \E t, u \in Threads :
        /\ t # u
        /\ thr.pc[t] = "write"
        /\ thr.pc[u] = "read"

Written == {thr.written[i] : i \in 1 .. Len(thr.written)}

\* C12 -- the threshold has no internal locking. An emission's branch is
\* the comparison of the threshold it read, which is the threshold set by
\* the last SetLogLevel completed before the emission began (the old one) or
\* a level a SetLogLevel has stored since (the new one). When the caller
\* serializes every call under one mutex no conflicting write and read of
\* the threshold are ever pending together, and the threshold read is always
\* the one set by the last SetLogLevel completed before the emission.
UnlockedThreshold ==
    /\ thr.locking => ~Race
    /\ \A t \in Threads :
          thr.pc[t] \in {"call", "emitret"} =>
              /\ thr.admit[t] = (thr.saw[t] >= 7)
              /\ thr.saw[t] = thr.start[t] \/ thr.saw[t] \in Written
              /\ thr.locking => thr.saw[t] = thr.start[t]

\* Without a mutex, SetLogLevel(DEBUG) is about to write the threshold
\* while a Debug call, begun at threshold INFO, is about to read it: the
\* Debug is written or not according to which access comes first.
UnlockedThresholdWitness ==
    /\ ~thr.locking
    /\ Race
    /\ logger.logLevel = 6
    /\ \E t, u \in Threads :
          /\ thr.pc[t] = "write"
          /\ thr.lvl[t] = 7
          /\ thr.pc[u] = "read"
          /\ thr.start[u] = 6

====
